---- MODULE Spec2Model ----
(***************************************************************************)
(* The fast-marching core of fipy's DistanceVariable                       *)
(* (fipy/models/levelSet/distanceFunction/distanceVariable.py) as a state  *)
(* machine: one behaviour is a constructed DistanceVariable on a Grid1D or *)
(* Grid2D mesh followed by one public call (calcDistanceFunction,          *)
(* extendVariable or getCellInterfaceAreas), cut at the places where the   *)
(* claims look at it: island pre-pass, interface location, spreading of    *)
(* the extension to the negative interface cells, trial seeding, one loop  *)
(* iteration per acceptance, return.                                       *)
(*                                                                         *)
(* Numbers.  The program computes in double precision.  The model computes *)
(* in fixed point: every length, field value and extension value is an     *)
(* integer number of 1/Scale units, quotients are truncated toward zero    *)
(* and square roots are floored.  Unit normals of the grids are exact      *)
(* integer vectors.                                                        *)
(***************************************************************************)
EXTENDS Integers, Sequences, FiniteSets, TLC

VARIABLES
    mesh,                     \* the grid: [dim, nx, ny, dx, dy]
    selfNarrowBandWidth,      \* self.narrowBandWidth (constructor argument)
    value,                    \* self.value
    tmpValue,                 \* self.tmpValue
    extensionVariable,        \* the caller's extension array
    numericExtensionVariable, \* the working copy the pass writes
    flag,                     \* TRUE in an extendVariable pass
    narrowBandWidth,          \* the pass's band width
    deleteIslands,            \* the pass's deleteIslands argument
    distances,                \* interface candidates per cell and slot, Masked where masked
    masked,                   \* cells whose entry of self.value is masked
    interfaceFlag,            \* interfaceFlag as computed by the locator
    positiveInterfaceFlag,    \* positiveInterfaceFlag
    evaluatedFlag,            \* evaluatedFlag
    trialIDs,                 \* trialIDs (a list: order decides ties)
    id,                       \* the cell accepted last, -1 before
    pc,                       \* position in the call
    err,                      \* the exception that ended the call, "none" otherwise
    areas,                    \* result of getCellInterfaceAreas
    \* history, written only to state the properties
    value0,                   \* self.value when the call was made
    ext0,                     \* the caller's extension array when the call was made
    valueLoc,                 \* self.value after the island pre-pass
    valueSeed,                \* self.value after the interface locator
    accepted,                 \* cells accepted by the loop, in order
    calls                     \* the trial value solver's calls of the last step

vars == << mesh, selfNarrowBandWidth, value, tmpValue, extensionVariable,
           numericExtensionVariable, flag, narrowBandWidth, deleteIslands,
           distances, masked, interfaceFlag, positiveInterfaceFlag,
           evaluatedFlag, trialIDs, id, pc, err, areas,
           value0, ext0, valueLoc, valueSeed, accepted, calls >>

-----------------------------------------------------------------------------
(* Fixed-point arithmetic *)

\* resolution of the fixed-point numbers: 1.0 is Scale
Scale == 10 * 10

\* 1e+10, the program's "infinitely far" (sentinel of the solver, default band)
Huge == 10000 * Scale

\* marks a masked entry of a masked array of non-negative numbers
Masked == 0 - 1

\* narrowBandWidth = None
None == 0 - 1

Abs(x) == IF x < 0 THEN 0 - x ELSE x

Max(a, b) == IF a >= b THEN a ELSE b

Min(a, b) == IF a <= b THEN a ELSE b

\* a / b truncated toward zero, b # 0
Div(a, b) ==
    IF (a >= 0) = (b > 0) THEN Abs(a) \div Abs(b) ELSE 0 - (Abs(a) \div Abs(b))

RECURSIVE SqrtIter(_, _)
SqrtIter(x, r) ==
    LET n == (r + x \div r) \div 2
    IN  IF n >= r THEN r ELSE SqrtIter(x, n)

\* floor of the square root of x >= 0
Sqrt(x) == IF x <= 0 THEN 0 ELSE SqrtIter(x, x)

-----------------------------------------------------------------------------
(* The mesh adapter: Grid1D(dx, nx) and Grid2D(dx, dy, nx, ny)             *)

Cells(m) == 0 .. (m.nx * m.ny - 1)

\* neighbour slots of a cell: (left, right) in 1-D, (bottom, right, top, left) in 2-D
Slots(m) == IF m.dim = 1 THEN 1 .. 2 ELSE 1 .. 4

\* mesh._getCellToCellIDs()[c][k]; -1 where the slot is masked (exterior face)
CellToCellID(m, c, k) ==
    LET x == c % m.nx
        y == c \div m.nx
    IN  IF m.dim = 1
        THEN IF k = 1 THEN (IF x > 0 THEN c - 1 ELSE 0 - 1)
                      ELSE (IF x < m.nx - 1 THEN c + 1 ELSE 0 - 1)
        ELSE CASE k = 1 -> (IF y > 0 THEN c - m.nx ELSE 0 - 1)
               [] k = 2 -> (IF x < m.nx - 1 THEN c + 1 ELSE 0 - 1)
               [] k = 3 -> (IF y < m.ny - 1 THEN c + m.nx ELSE 0 - 1)
               [] OTHER -> (IF x > 0 THEN c - 1 ELSE 0 - 1)

\* mesh._getCellToCellIDsFilled()[c][k]: a masked slot holds the cell's own id
CellToCellIDFilled(m, c, k) ==
    IF CellToCellID(m, c, k) = 0 - 1 THEN c ELSE CellToCellID(m, c, k)

\* the cells next to c
Neighbours(m, c) ==
    { CellToCellID(m, c, k) : k \in Slots(m) } \ { 0 - 1 }

\* mesh._getCellToCellDistances()[c][k]: centre to centre, centre to face on the boundary
CellToCellDistance(m, c, k) ==
    LET d == IF m.dim = 1 THEN m.dx
             ELSE IF k \in {1, 3} THEN m.dy ELSE m.dx
    IN  IF CellToCellID(m, c, k) = 0 - 1 THEN d \div 2 ELSE d

\* mesh._getCellNormals()[c][k]: outward unit normal of the slot's face
CellNormal(m, c, k) ==
    IF m.dim = 1
    THEN IF k = 1 THEN << 0 - 1, 0 >> ELSE << 1, 0 >>
    ELSE CASE k = 1 -> << 0, 0 - 1 >>
           [] k = 2 -> << 1, 0 >>
           [] k = 3 -> << 0, 1 >>
           [] OTHER -> << 0 - 1, 0 >>

\* mesh._getCellAreas()[c][k]: area of the slot's face
CellArea(m, c, k) ==
    IF m.dim = 1 THEN Scale
    ELSE IF k \in {1, 3} THEN m.dx ELSE m.dy

\* the function f as a table: the same function, every entry computed once
RECURSIVE Table(_, _)
Table(S, f) ==
    IF S = {} THEN << >>
    ELSE LET c == CHOOSE a \in S : TRUE
         IN  (c :> f[c]) @@ Table(S \ {c}, f)

Array(f) == Table(DOMAIN f, f)

Zeros(m) == Array([ c \in Cells(m) |-> 0 ])

NoFlags(m) == Array([ c \in Cells(m) |-> FALSE ])

\* argsort of the slots by key, ascending, ties in slot order
RECURSIVE ArgSort(_, _)
ArgSort(S, key) ==
    IF S = {} THEN << >>
    ELSE LET k == CHOOSE a \in S :
                      \A b \in S : key[a] < key[b] \/ (key[a] = key[b] /\ a <= b)
         IN  << k >> \o ArgSort(S \ {k}, key)

-----------------------------------------------------------------------------
(* Interface locator *)

\* Sign with zero counted as positive
SignZeroPositive(v) == IF v >= 0 THEN 1 ELSE 0 - 1

\* sign = (self.value > 0) * 2 - 1
Sign(v) == IF v > 0 THEN 1 ELSE 0 - 1

\* AdjInterface with the mask adjVals * value >= 0: only a neighbour of strictly
\* opposite sign is left unmasked
AdjInterfaceStrict(m, val, c, k) ==
    /\ CellToCellID(m, c, k) # 0 - 1
    /\ val[CellToCellID(m, c, k)] * val[c] < 0

\* an entry of adjInterfaceValues that is not masked: the neighbour exists and
\* adjVals * value > 0 is false
AdjInterface(m, val, c, k) ==
    /\ CellToCellID(m, c, k) # 0 - 1
    /\ ~ (val[CellToCellID(m, c, k)] * val[c] > 0)

\* number of neighbours an island must differ from
IslandNeighbours == 4

\* tmp of the island pre-pass: masksum == 4 and value > 0
IsIsland(m, val, c) ==
    /\ Cardinality({ k \in Slots(m) : AdjInterface(m, val, c, k) }) = IslandNeighbours
    /\ val[c] > 0

\* self.value after "if deleteIslands:"
DeleteIslandsValue(m, val, di) ==
    IF di
    THEN Array([ c \in Cells(m) |-> IF IsIsland(m, val, c) THEN 0 - Scale ELSE val[c] ])
    ELSE val

\* Distance without the interpolation: the whole distance to the neighbour
DistanceToNeighbour(m, val, c, k) ==
    IF AdjInterface(m, val, c, k) /\ val[c] - val[CellToCellID(m, c, k)] # 0
    THEN CellToCellDistance(m, c, k)
    ELSE Masked

\* distances[c][k] = abs(value * dAP / (value - adjInterfaceValues)), Masked
\* where the neighbour is masked or the masked division has a zero divisor
Distance(m, val, c, k) ==
    IF AdjInterface(m, val, c, k) /\ val[c] - val[CellToCellID(m, c, k)] # 0
    THEN Abs(Div(val[c] * CellToCellDistance(m, c, k),
                 val[c] - val[CellToCellID(m, c, k)]))
    ELSE Masked

Distances(m, val) ==
    Array([ c \in Cells(m) |-> Array([ k \in Slots(m) |-> Distance(m, val, c, k) ]) ])

\* sign * s * t / MA.sqrt(s**2 + t**2): << masked, value >>
Combine(sgn, s, t) ==
    IF Sqrt(s * s + t * t) = 0
    THEN << TRUE, 0 >>
    ELSE << FALSE, sgn * Div(s * t, Sqrt(s * s + t * t)) >>

\* the keys distances[c] is sorted by: MA.argsort puts masked entries last
DistanceKey(m, dist, c) ==
    Array([ k \in Slots(m) |-> IF dist[c][k] = Masked THEN Huge ELSE dist[c][k] ])

\* SignedDistanceOf without "if self.mesh.getDim() == 2": s and t are combined
\* on every mesh
SignedDistanceCombined(m, val, dist, c, indices) ==
    IF dist[c][indices[1]] = Masked THEN << FALSE, val[c] >>
    ELSE IF dist[c][indices[2]] = Masked
    THEN << FALSE, Sign(val[c]) * dist[c][indices[1]] >>
    ELSE Combine(Sign(val[c]), dist[c][indices[1]], dist[c][indices[2]])

\* signedDistance[c] as << masked, value >>, indices being argsort(distances[c]):
\* s, t and u are the three least distances, ns and nt the normals of the first two
SignedDistanceOf(m, val, dist, c, indices) ==
    LET sgn == Sign(val[c])
        s == dist[c][indices[1]]
        t == dist[c][indices[2]]
        u == dist[c][indices[3]]
        ns == CellNormal(m, c, indices[1])
        nt == CellNormal(m, c, indices[2])
    IN  IF m.dim = 2
        THEN IF s = Masked THEN << FALSE, val[c] >>
             ELSE IF t = Masked THEN << FALSE, sgn * s >>
             ELSE IF 10 * Abs(ns[1] * nt[1] + ns[2] * nt[2]) < 9 THEN Combine(sgn, s, t)
             ELSE IF u = Masked THEN << FALSE, sgn * s >>
             ELSE Combine(sgn, s, u)
        ELSE IF s = Masked THEN << FALSE, val[c] >> ELSE << FALSE, sgn * s >>

SignedDistance(m, val, dist, c) ==
    SignedDistanceOf(m, val, dist, c, ArgSort(Slots(m), DistanceKey(m, dist, c)))

\* InterfaceFlag looking at the first neighbour slot only
InterfaceFlagFirstSlot(m, dist) ==
    Array([ c \in Cells(m) |-> dist[c][1] # Masked ])

\* interfaceFlag = masksum > 0
InterfaceFlag(m, dist) ==
    Array([ c \in Cells(m) |-> \E k \in Slots(m) : dist[c][k] # Masked ])

-----------------------------------------------------------------------------
(* Trial value solver *)

\* the evaluated neighbours of cell c under a flag array
EvaluatedNeighbours(m, evalFlag, c) ==
    { n \in Neighbours(m, c) : evalFlag[n] }

\* dis of the two-neighbour branch of _calcTrialValue: n0 and n1 are the unit
\* normals, d0 and d1 the distances, v0 and v1 the values of the two neighbours
Quadratic(sgn, d0, d1, n0, n1, v0, v1) ==
    LET crossProd == d0 * d1 * (n0[1] * n1[2] - n0[2] * n1[1])
        dotProd == d0 * d1 * (n0[1] * n1[1] + n0[2] * n1[2])
        dsq == d0 * d0 + d1 * d1 - 2 * dotProd
        top == (0 - v0) * (dotProd - d1 * d1) - v1 * (dotProd - d0 * d0)
        \* sqrt(max(crossProd**2 * (dsq - (v0 - v1)**2), 0))
        sqrt == Abs(crossProd) * Sqrt(Max(dsq - (v0 - v1) * (v0 - v1), 0))
    IN  Div(top + sgn * sqrt, dsq)

\* Phi without the clamp
PhiUnclamped(valc, dis) == dis

\* phi = max(dis, 0) for a positive cell, min(dis, 0) otherwise
Phi(valc, dis) == IF valc > 0 THEN Max(dis, 0) ELSE Min(dis, 0)

\* NGrad without abs(): a weight is negative where the neighbour is nearer than phi
NGradSigned(a0, v0, phi, d1) == Div(a0 * (v0 - phi) * d1, Scale)

\* n0grad = a0 * abs(v0 - phi) / d0, here multiplied by d0 * d1 / Scale
NGrad(a0, v0, phi, d1) == Div(a0 * Abs(v0 - phi) * d1, Scale)

\* (extensionVariable[adjIDs[index0]] * n0grad + ... * n1grad) / (n0grad + n1grad)
\* as << err, ext >>: a zero divisor raises
Blend(e0, e1, n0grad, n1grad) ==
    IF n0grad + n1grad = 0
    THEN << "ZeroDivisionError", 0 >>
    ELSE << "none", Div(e0 * n0grad + e1 * n1grad, n0grad + n1grad) >>

\* the pair returned by the two-neighbour branch, given dis
TwoNeighbourResult(m, val, ext, c, index0, index1, dis) ==
    LET id0 == CellToCellIDFilled(m, c, index0)
        id1 == CellToCellIDFilled(m, c, index1)
        phi == Phi(val[c], dis)
        b == Blend(ext[id0], ext[id1],
                   NGrad(CellArea(m, c, index0), val[id0], phi,
                         CellToCellDistance(m, c, index1)),
                   NGrad(CellArea(m, c, index1), val[id1], phi,
                         CellToCellDistance(m, c, index0)))
    IN  [ err |-> b[1], dis |-> dis, ext |-> b[2], N |-> 2,
          index0 |-> index0, index1 |-> index1 ]

\* the two-neighbour branch of _calcTrialValue: the distance of cell c from the
\* neighbours in slots index0 and index1, and the blend of their extension values
TwoNeighbourValue(m, val, ext, c, index0, index1) ==
    TwoNeighbourResult(m, val, ext, c, index0, index1,
        Quadratic(Sign(val[c]),
                  CellToCellDistance(m, c, index0), CellToCellDistance(m, c, index1),
                  CellNormal(m, c, index0), CellNormal(m, c, index1),
                  val[CellToCellIDFilled(m, c, index0)],
                  val[CellToCellIDFilled(m, c, index1)]))

\* the keys the neighbours are sorted by: abs(adjValues), 1e+10 where the
\* neighbour is not evaluated
TrialKey(m, val, evalFlag, c) ==
    Array([ k \in Slots(m) |->
              IF evalFlag[CellToCellIDFilled(m, c, k)]
              THEN Abs(val[CellToCellIDFilled(m, c, k)]) ELSE Huge ])

\* N = sum(adjEvaluatedFlag)
EvaluatedCount(m, evalFlag, c) ==
    Cardinality({ k \in Slots(m) : evalFlag[CellToCellIDFilled(m, c, k)] })

\* "if N > 1: ..." on indices = argsort(abs(adjValues)): << N, index0, index1 >>
\* after the test of the normals
PickNeighbours(m, c, N, indices) ==
    LET n0 == CellNormal(m, c, indices[1])
        n1 == CellNormal(m, c, indices[2])
        cross == IF m.dim = 2 THEN n0[1] * n1[2] - n0[2] * n1[1] ELSE 0
    IN  IF N > 1 /\ 10 * Abs(cross) < 1
        THEN IF N = 2 THEN << 1, indices[1], indices[2] >>
             ELSE IF N = 3 THEN << N, indices[1], indices[m.dim + 1] >>
             ELSE << N, indices[1], indices[2] >>
        ELSE << N, indices[1], indices[2] >>

\* the choice of neighbours in _calcTrialValue
TrialNeighbours(m, val, evalFlag, c) ==
    PickNeighbours(m, c, EvaluatedCount(m, evalFlag, c),
                   ArgSort(Slots(m), TrialKey(m, val, evalFlag, c)))

\* TrialValue with N == 0 taken as N == 1: the first slot's neighbour is used
TrialValueNoRaise(m, val, ext, c, pick) ==
    IF pick[1] <= 1
    THEN [ err |-> "none",
           dis |-> val[CellToCellIDFilled(m, c, pick[2])]
                       + Sign(val[c]) * CellToCellDistance(m, c, pick[2]),
           ext |-> ext[CellToCellIDFilled(m, c, pick[2])], N |-> 1,
           index0 |-> pick[2], index1 |-> pick[3] ]
    ELSE TwoNeighbourValue(m, val, ext, c, pick[2], pick[3])

\* "if N == 0: ... elif N == 1: ... elif N == 2: ..." on pick = << N, index0, index1 >>
TrialValue(m, val, ext, c, pick) ==
    IF pick[1] = 0
    THEN [ err |-> "Error", dis |-> 0, ext |-> 0, N |-> 0,
           index0 |-> pick[2], index1 |-> pick[3] ]
    ELSE IF pick[1] = 1
    THEN [ err |-> "none",
           dis |-> val[CellToCellIDFilled(m, c, pick[2])]
                       + Sign(val[c]) * CellToCellDistance(m, c, pick[2]),
           ext |-> ext[CellToCellIDFilled(m, c, pick[2])], N |-> 1,
           index0 |-> pick[2], index1 |-> pick[3] ]
    ELSE TwoNeighbourValue(m, val, ext, c, pick[2], pick[3])

\* _calcTrialValue(id, evaluatedFlag, extensionVariable): err is "Error" where
\* the program raises, otherwise (dis, ext) is the pair returned; N is the
\* number of neighbours used, index0 and index1 their slots
CalcTrialValue(m, val, evalFlag, ext, c) ==
    TrialValue(m, val, ext, c, TrialNeighbours(m, val, evalFlag, c))

\* the state after one call of the loop below returned r for cell c; the call is
\* recorded with the cell's evaluated neighbours and the arrays it was made with
Solved(m, evalFlag, writeValue, st, c, r) ==
    LET call == [ id |-> c, evaluated |-> EvaluatedNeighbours(m, evalFlag, c),
                  value |-> st.value, ext |-> st.ext, result |-> r ]
    IN  IF r.err # "none"
        THEN [ st EXCEPT !.err = r.err, !.calls = Append(@, call) ]
        ELSE [ st EXCEPT !.value = IF writeValue THEN [ @ EXCEPT ![c] = r.dis ] ELSE @,
                         !.ext = [ @ EXCEPT ![c] = r.ext ],
                         !.calls = Append(@, call) ]

\* "for id in ids: value[id], ext[id] = _calcTrialValue(id, evalFlag, ext)" with
\* writeValue, "tmp, ext[id] = ..." without; st is [value, ext, err, calls]
\* and a raise leaves the loop
RECURSIVE SolveEach(_, _, _, _, _)
SolveEach(m, ids, evalFlag, writeValue, st) ==
    IF ids = << >> \/ st.err # "none" THEN st
    ELSE SolveEach(m, Tail(ids), evalFlag, writeValue,
             Solved(m, evalFlag, writeValue, st, Head(ids),
                    CalcTrialValue(m, st.value, evalFlag, st.ext, Head(ids))))

\* the ids of a set of cells in ascending order (Numeric.nonzero)
RECURSIVE Ascending(_)
Ascending(S) ==
    IF S = {} THEN << >>
    ELSE LET c == CHOOSE a \in S : \A b \in S : a <= b
         IN  << c >> \o Ascending(S \ {c})

-----------------------------------------------------------------------------
(* Narrow-band propagator: the steps of _calcDistanceFunction as functions   *)

\* self.value = signedDistance
LocateValue(m, val) ==
    LET dist == Distances(m, val)
    IN  Array([ c \in Cells(m) |-> SignedDistance(m, val, dist, c)[2] ])

\* the cells where signedDistance is masked
LocateMasked(m, val) ==
    LET dist == Distances(m, val)
    IN  { c \in Cells(m) : SignedDistance(m, val, dist, c)[1] }

\* positiveInterfaceFlag = where(value > 0, interfaceFlag, 0)
PositiveInterfaceFlag(m, val, iflag) ==
    Array([ c \in Cells(m) |-> iflag[c] /\ val[c] > 0 ])

\* negativeInterfaceIDs = nonzero(where(value < 0, interfaceFlag, 0))
NegativeInterfaceIDs(m, val, iflag) ==
    Ascending({ c \in Cells(m) : iflag[c] /\ val[c] < 0 })

\* "spread the extensionVariable to the whole interface": the loop over the
\* negative interface cells
SpreadInterfaceLoop(m, val, iflag, ext) ==
    SolveEach(m, NegativeInterfaceIDs(m, val, iflag),
              PositiveInterfaceFlag(m, val, iflag), FALSE,
              [ value |-> val, ext |-> ext, err |-> "none", calls |-> << >> ])

\* InitialTrialIDs without "logical_not(interfaceFlag)": every cell next to an
\* interface cell is a trial cell
InitialTrialIDsWithInterface(m, iflag) ==
    Ascending({ c \in Cells(m) : \E n \in Neighbours(m, c) : iflag[n] })

\* trialIDs = list(nonzero(trialFlag))
InitialTrialIDs(m, iflag) ==
    Ascending({ c \in Cells(m) :
                  ~ iflag[c] /\ \E n \in Neighbours(m, c) : iflag[n] })

\* "for id in trialIDs: ..." before the loop
SeedTrialLoop(m, val, iflag, ext) ==
    SolveEach(m, InitialTrialIDs(m, iflag), iflag, TRUE,
              [ value |-> val, ext |-> ext, err |-> "none", calls |-> << >> ])

\* trialIDs[argmin(abs(take(value, trialIDs)))]: the first of the least
ArgMinTrial(val, trial) ==
    LET i == CHOOSE a \in 1 .. Len(trial) :
                 \A b \in 1 .. Len(trial) :
                     \/ Abs(val[trial[a]]) < Abs(val[trial[b]])
                     \/ (Abs(val[trial[a]]) = Abs(val[trial[b]]) /\ a <= b)
    IN  trial[i]

\* trialIDs.remove(id): the first occurrence of c is taken out
Remove(trial, c) ==
    LET i == CHOOSE a \in 1 .. Len(trial) :
                 trial[a] = c /\ \A b \in 1 .. (a - 1) : trial[b] # c
    IN  SubSeq(trial, 1, i - 1) \o SubSeq(trial, i + 1, Len(trial))

\* RelaxIDs that stops after the first neighbour that is not evaluated
RelaxIDsFirstOnly(m, evalFlag, c) ==
    LET slots == ArgSort(Slots(m), [ k \in Slots(m) |-> k ])
        adj == [ i \in 1 .. Len(slots) |-> CellToCellID(m, c, slots[i]) ]
        open == SelectSeq(adj, LAMBDA a : a # 0 - 1 /\ ~ evalFlag[a])
    IN  IF open = << >> THEN open ELSE << Head(open) >>

\* the neighbours of the accepted cell that are recomputed, in slot order
RelaxIDs(m, evalFlag, c) ==
    LET slots == ArgSort(Slots(m), [ k \in Slots(m) |-> k ])
        adj == [ i \in 1 .. Len(slots) |-> CellToCellID(m, c, slots[i]) ]
    IN  SelectSeq(adj, LAMBDA a : a # 0 - 1 /\ ~ evalFlag[a])

\* AppendNew without "if adjID not in trialIDs": every recomputed cell is appended
RECURSIVE AppendAlways(_, _)
AppendAlways(trial, done) ==
    IF done = << >> THEN trial
    ELSE AppendAlways(IF Head(done).result.err # "none" THEN trial
                      ELSE Append(trial, Head(done).id),
                      Tail(done))

\* "if adjID not in trialIDs: trialIDs.append(adjID)" for the calls that returned
RECURSIVE AppendNew(_, _)
AppendNew(trial, done) ==
    IF done = << >> THEN trial
    ELSE LET c == Head(done).id
         IN  AppendNew(IF Head(done).result.err # "none"
                          \/ \E i \in 1 .. Len(trial) : trial[i] = c
                       THEN trial ELSE Append(trial, c),
                       Tail(done))

\* BeyondBand with the whole band width in place of its half
BeyondWholeBand(v, nbw) == Abs(v) > nbw

\* "abs(self.value[id]) > narrowBandWidth / 2"
BeyondBand(v, nbw) == 2 * Abs(v) > nbw

\* the state after the cell c is accepted, ev is the new evaluatedFlag and r the
\* state after its unevaluated neighbours are recomputed
Accepted(st, c, ev, r, nbw) ==
    [ value |-> r.value, ext |-> r.ext, evaluatedFlag |-> ev,
      trialIDs |-> AppendNew(Remove(st.trialIDs, c), r.calls),
      id |-> c, err |-> r.err, calls |-> r.calls,
      stop |-> r.err = "none" /\ BeyondBand(r.value[c], nbw) ]

\* SolveEach with every result assigned to the cell target: "self.value[id],
\* extensionVariable[id] = ..." in place of "self.value[adjID], ..."
RECURSIVE SolveEachInto(_, _, _, _, _)
SolveEachInto(m, ids, evalFlag, target, st) ==
    IF ids = << >> \/ st.err # "none" THEN st
    ELSE SolveEachInto(m, Tail(ids), evalFlag, target,
             [ Solved(m, evalFlag, FALSE, st, target,
                      CalcTrialValue(m, st.value, evalFlag, st.ext, Head(ids)))
                 EXCEPT !.value =
                     IF CalcTrialValue(m, st.value, evalFlag, st.ext, Head(ids)).err
                            = "none"
                     THEN [ @ EXCEPT ![target] =
                              CalcTrialValue(m, st.value, evalFlag, st.ext,
                                             Head(ids)).dis ]
                     ELSE @,
                        !.calls = Append(st.calls,
                                         [ id |-> Head(ids),
                                           evaluated |-> EvaluatedNeighbours(m, evalFlag,
                                                                             Head(ids)),
                                           value |-> st.value, ext |-> st.ext,
                                           result |-> CalcTrialValue(m, st.value, evalFlag,
                                                                     st.ext, Head(ids)) ]) ])

\* Relax with the neighbours' results assigned to the accepted cell
RelaxWritingAccepted(m, st, c, ev, nbw) ==
    Accepted(st, c, ev,
             SolveEachInto(m, RelaxIDs(m, ev, c), ev, c,
                           [ value |-> st.value, ext |-> st.ext, err |-> "none",
                             calls |-> << >> ]),
             nbw)

\* "evaluatedFlag[id] = 1" and the loop over the neighbours of the accepted cell c
Relax(m, st, c, ev, nbw) ==
    Accepted(st, c, ev,
             SolveEach(m, RelaxIDs(m, ev, c), ev, TRUE,
                       [ value |-> st.value, ext |-> st.ext, err |-> "none",
                         calls |-> << >> ]),
             nbw)

\* one iteration of "while len(trialIDs):" on st = [value, ext, evaluatedFlag,
\* trialIDs, id, err, calls, stop]
AcceptStep(m, st, nbw) ==
    Relax(m, st, ArgMinTrial(st.value, st.trialIDs),
          [ st.evaluatedFlag EXCEPT ![ArgMinTrial(st.value, st.trialIDs)] = TRUE ], nbw)

\* the whole loop
RECURSIVE Propagate(_, _, _)
Propagate(m, st, nbw) ==
    IF st.trialIDs = << >> \/ st.stop \/ st.err # "none" THEN st
    ELSE Propagate(m, AcceptStep(m, st, nbw), nbw)

\* the result of the call once the trial cells are seeded: sd is the state after
\* "evaluate the trialIDs"
Propagated(m, iflag, sd, nbw) ==
    Propagate(m, [ value |-> sd.value, ext |-> sd.ext, evaluatedFlag |-> iflag,
                   trialIDs |-> InitialTrialIDs(m, iflag), id |-> 0 - 1,
                   err |-> sd.err, calls |-> << >>, stop |-> FALSE ], nbw)

\* the result of the call once the interface is located: v2 is signedDistance,
\* msk the cells where it is masked, sp the state after the spread
Located(m, v2, iflag, msk, sp, nbw) ==
    IF msk # {} THEN [ value |-> v2, err |-> "MAError" ]
    ELSE IF sp.err # "none" THEN [ value |-> v2, err |-> sp.err ]
    ELSE Propagated(m, iflag, SeedTrialLoop(m, v2, iflag, sp.ext), nbw)

\* the call on the field v1 left by the island pre-pass
Locate(m, v1, v2, iflag, nbw) ==
    Located(m, v2, iflag, LocateMasked(m, v1),
            SpreadInterfaceLoop(m, v2, iflag, Zeros(m)), nbw)

\* calcDistanceFunction(narrowBandWidth = nbw, deleteIslands = di) on a field:
\* the record of value and err when it returns or raises
DistanceFunction(m, val, nbw, di) ==
    Locate(m, DeleteIslandsValue(m, val, di),
           LocateValue(m, DeleteIslandsValue(m, val, di)),
           InterfaceFlag(m, Distances(m, DeleteIslandsValue(m, val, di))), nbw)

-----------------------------------------------------------------------------
(* Interface geometry queries *)

\* the sum of f over the slots S
RECURSIVE SumOver(_, _)
SumOver(S, f) ==
    IF S = {} THEN 0
    ELSE LET k == CHOOSE a \in S : TRUE
         IN  f[k] + SumOver(S \ {k}, f)

\* _getInterfaceFlag() at the face in slot k of cell c: val1 * val0 < 0; on an
\* exterior face both adjacent cells are c
FaceInterfaceFlag(m, val, c, k) ==
    val[CellToCellIDFilled(m, c, k)] * val[c] < 0

\* mesh.getCellVolumes()[c], in units of Scale
CellVolume(m) == IF m.dim = 1 THEN m.dx ELSE Div(m.dx * m.dy, Scale)

\* component i of getGrad()[c]: the sum over the faces of normal * area * face
\* value, over the volume; the face value is the mean of the two adjacent cells
CellGrad(m, val, c, i) ==
    Div(SumOver(Slots(m),
                Array([ k \in Slots(m) |->
                          CellNormal(m, c, k)[i] * CellArea(m, c, k)
                              * (val[c] + val[CellToCellIDFilled(m, c, k)]) ])),
        2 * CellVolume(m))

\* component i of getGrad().getArithmeticFaceValue() at the face in slot k of
\* cell c, set to zero on exterior faces
FaceGrad(m, val, c, k, i) ==
    IF CellToCellID(m, c, k) = 0 - 1 THEN 0
    ELSE Div(CellGrad(m, val, c, i) + CellGrad(m, val, CellToCellID(m, c, k), i), 2)

\* faceGrad / faceGradMag where the magnitude is not zero
Normalised(gx, gy) ==
    IF Sqrt(gx * gx + gy * gy) = 0 THEN << 0, 0 >>
    ELSE << Div(gx * Scale, Sqrt(gx * gx + gy * gy)),
            Div(gy * Scale, Sqrt(gx * gx + gy * gy)) >>

\* _getLevelSetNormals() at the face in slot k of cell c
LevelSetNormal(m, val, c, k) ==
    Normalised(FaceGrad(m, val, c, k, 1), FaceGrad(m, val, c, k, 2))

\* CellInterfaceNormal without "MA.where(valueOverFaces < 0, 0, ...)"
CellInterfaceNormalUnmasked(m, val, c, k) ==
    IF FaceInterfaceFlag(m, val, c, k) THEN LevelSetNormal(m, val, c, k)
    ELSE << 0, 0 >>

\* _getCellInterfaceNormals()[c][k]: zero where the cell's value is negative,
\* the level set normal on the faces _getInterfaceFlag() marks, zero elsewhere
CellInterfaceNormal(m, val, c, k) ==
    IF val[c] < 0 THEN << 0, 0 >>
    ELSE IF FaceInterfaceFlag(m, val, c, k) THEN LevelSetNormal(m, val, c, k)
    ELSE << 0, 0 >>

\* abs(dot(normals[c][k], areas[c][k])), areas being the outward normal times the
\* face area
ProjectedArea(m, c, k, normal) ==
    Div(Abs(normal[1] * CellNormal(m, c, k)[1] + normal[2] * CellNormal(m, c, k)[2])
            * CellArea(m, c, k), Scale)

\* getCellInterfaceAreas()
CellInterfaceAreas(m, val) ==
    Array([ c \in Cells(m) |->
              SumOver(Slots(m),
                      Array([ k \in Slots(m) |->
                                ProjectedArea(m, c, k,
                                              CellInterfaceNormal(m, val, c, k)) ])) ])

-----------------------------------------------------------------------------
(* The constructed objects and the arguments the calls are made with *)

\* largest cell count of the 1-D meshes whose every field is tried
MaxNx == 3

\* the step fields of the 1-D doctests have 2, 4, ... 2 * MaxHalf cells
MaxHalf == 4

Grid1D(nx, dx) == [ dim |-> 1, nx |-> nx, ny |-> 1, dx |-> dx, dy |-> Scale ]

Grid2D(nx, ny, dx, dy) == [ dim |-> 2, nx |-> nx, ny |-> ny, dx |-> dx, dy |-> dy ]

\* every field with values in vals
Fields(m, vals) ==
    { [ mesh |-> m, value |-> f ] : f \in [ Cells(m) -> vals ] }

\* Grid1D(dx, nx) with any of five values in each cell
LineInputs ==
    UNION { Fields(Grid1D(nx, dx), { 0 - 2 * Scale, 0 - Scale, 0, Scale, 2 * Scale }) :
            nx \in 2 .. MaxNx, dx \in { Scale, 2 * Scale } }

\* Grid1D(dx, nx = 2h) with value -1 in the left half and +1 in the right half
StepInputs ==
    { [ mesh |-> Grid1D(2 * h, dx),
        value |-> [ c \in 0 .. (2 * h - 1) |-> IF c < h THEN 0 - Scale ELSE Scale ] ] :
      h \in 1 .. MaxHalf, dx \in { Scale \div 2, Scale, 2 * Scale } }

\* Grid2D(dx = 1, dy = 2, nx = 2, ny = 2) with any of four values in each cell
SquareInputs ==
    Fields(Grid2D(2, 2, Scale, 2 * Scale), { 0 - Scale, 0, Scale, 3 * Scale })

\* Grid2D 2 x 3 (dx = 1, dy = 2) and 3 x 3 (dx = dy = 1) with -1 in cell 0 and
\* -1 or +1 in each other cell
SignInputs ==
    UNION { { input \in Fields(m, { 0 - Scale, Scale }) : input.value[0] < 0 } :
            m \in { Grid2D(2, 3, Scale, 2 * Scale), Grid2D(3, 3, Scale, Scale) } }

\* Grid2D 3 x 5 (dx = dy = 1): a band of three positive rows between two negative
\* rows; the magnitudes of the fourth and of the top row vary
BandInputs ==
    { [ mesh |-> Grid2D(3, 5, Scale, Scale),
        value |-> [ c \in 0 .. 14 |->
                      IF c < 3 THEN 0 - Scale
                      ELSE IF c < 9 THEN Scale
                      ELSE IF c < 12 THEN r[c - 9] * Scale
                      ELSE (0 - t[c - 11]) * Scale ] ] :
      r \in [ 0 .. 2 -> {1, 3} ], t \in { << 1, 1, 1 >>, << 3, 1, 3 >> } }

\* the fields of the extendVariable doctests: (-1, 1, 1, ...) on 2 x 2 and on
\* 3 x 3 after calcDistanceFunction()
DistanceInputs ==
    { [ mesh |-> m,
        value |-> DistanceFunction(m, [ c \in Cells(m) |->
                                          IF c = 0 THEN 0 - Scale ELSE Scale ],
                                   Huge, FALSE).value ] :
      m \in { Grid2D(2, 2, Scale, Scale), Grid2D(3, 3, Scale, Scale) } }

\* the fields of the getCellInterfaceAreas doctests: (-1.5, -0.5, 0.5, 1.5) on
\* Grid1D(dx = 1), (1.5, 0.5, 1.5, 0.5, -0.5, ...) on Grid2D 3 x 3 (dx = dy = 1),
\* (-0.5, 0.5, 0.5, 1.5) on Grid2D 2 x 2 (dx = dy = .5)
AreaInputs ==
    { [ mesh |-> Grid1D(4, Scale),
        value |-> [ c \in 0 .. 3 |-> (2 * c - 3) * (Scale \div 2) ] ],
      [ mesh |-> Grid2D(3, 3, Scale, Scale),
        value |-> [ c \in 0 .. 8 |->
                      IF c = 4 THEN 0 - (Scale \div 2)
                      ELSE IF c % 2 = 1 THEN Scale \div 2 ELSE 3 * (Scale \div 2) ] ],
      [ mesh |-> Grid2D(2, 2, Scale \div 2, Scale \div 2),
        value |-> [ c \in 0 .. 3 |->
                      IF c = 0 THEN 0 - (Scale \div 2)
                      ELSE IF c = 3 THEN 3 * (Scale \div 2) ELSE Scale \div 2 ] ] }

\* Grid2D(dx = 3, dy = 1, nx = 4, ny = 3) with interface values far apart:
\* (-1, -2, 2, 3, 3, -3, r6, r7, 1, -3, r10, r11), the r's being -1 or -2
WideInputs ==
    { [ mesh |-> Grid2D(4, 3, 3 * Scale, Scale),
        value |-> [ c \in 0 .. 11 |->
                      IF c \in DOMAIN r THEN r[c] * Scale
                      ELSE << 0 - 1, 0 - 2, 2, 3, 3, 0 - 3, 0, 0, 1, 0 - 3 >>[c + 1]
                               * Scale ] ] :
      r \in [ { 6, 7, 10, 11 } -> { 0 - 1, 0 - 2 } ] }

Inputs ==
    LineInputs \cup StepInputs \cup SquareInputs \cup SignInputs \cup BandInputs
        \cup DistanceInputs \cup AreaInputs \cup WideInputs

\* the extension arrays the calls are made with, those of the doctests:
\* (-1, .5, 2, -1, ...) and (-1, .5, -1, 2, -1, ...)
ExtensionInput(m, p) ==
    [ c \in Cells(m) |->
        IF c = 1 THEN Scale \div 2
        ELSE IF c = p + 1 THEN 2 * Scale ELSE 0 - Scale ]

NoDistances(m) == [ c \in Cells(m) |-> [ k \in Slots(m) |-> Masked ] ]

\* DistanceVariable(mesh, value, narrowBandWidth): __init__
Init ==
    /\ \E input \in Inputs : mesh = input.mesh /\ value = input.value
    /\ selfNarrowBandWidth \in { Huge, 3 * Scale }
    /\ tmpValue = value
    /\ extensionVariable = Zeros(mesh)
    /\ numericExtensionVariable = Zeros(mesh)
    /\ flag = FALSE
    /\ narrowBandWidth = selfNarrowBandWidth
    /\ deleteIslands = FALSE
    /\ distances = NoDistances(mesh)
    /\ masked = {}
    /\ interfaceFlag = NoFlags(mesh)
    /\ positiveInterfaceFlag = NoFlags(mesh)
    /\ evaluatedFlag = NoFlags(mesh)
    /\ trialIDs = << >>
    /\ id = 0 - 1
    /\ pc = "idle"
    /\ err = "none"
    /\ areas = Zeros(mesh)
    /\ value0 = value
    /\ ext0 = Zeros(mesh)
    /\ valueLoc = value
    /\ valueSeed = value
    /\ accepted = << >>
    /\ calls = << >>

\* calcDistanceFunction(narrowBandWidth = nbw, deleteIslands = di) is called:
\* _calcDistanceFunction is entered with extensionVariable = None
CalcDistanceFunction(nbw, di) ==
    /\ pc = "idle"
    /\ pc' = "islands"
    /\ flag' = FALSE
    /\ narrowBandWidth' = IF nbw = None THEN selfNarrowBandWidth ELSE nbw
    /\ deleteIslands' = di
    /\ numericExtensionVariable' = Zeros(mesh)
    /\ UNCHANGED << mesh, selfNarrowBandWidth, value, tmpValue, extensionVariable,
                    distances, masked, interfaceFlag, positiveInterfaceFlag,
                    evaluatedFlag, trialIDs, id, err, areas,
                    value0, ext0, valueLoc, valueSeed, accepted, calls >>

\* extendVariable(extensionVariable = ext, deleteIslands = di) is called: the
\* field is saved and _calcDistanceFunction is entered with a copy of ext
ExtendVariable(ext, di) ==
    /\ pc = "idle"
    /\ pc' = "islands"
    /\ flag' = TRUE
    /\ tmpValue' = value
    /\ extensionVariable' = ext
    /\ numericExtensionVariable' = ext
    /\ ext0' = ext
    /\ narrowBandWidth' = selfNarrowBandWidth
    /\ deleteIslands' = di
    /\ UNCHANGED << mesh, selfNarrowBandWidth, value, distances, masked,
                    interfaceFlag, positiveInterfaceFlag, evaluatedFlag, trialIDs,
                    id, err, areas, value0, valueLoc, valueSeed, accepted, calls >>

\* "if deleteIslands: ..."
DeleteIslands ==
    /\ pc = "islands"
    /\ pc' = "locate"
    /\ value' = DeleteIslandsValue(mesh, value, deleteIslands)
    /\ valueLoc' = value'
    /\ UNCHANGED << mesh, selfNarrowBandWidth, tmpValue, extensionVariable,
                    numericExtensionVariable, flag, narrowBandWidth, deleteIslands,
                    distances, masked, interfaceFlag, positiveInterfaceFlag,
                    evaluatedFlag, trialIDs, id, err, areas,
                    value0, ext0, valueSeed, accepted, calls >>

\* "calculate interface values" and "calculate interface flag"
LocateInterface ==
    /\ pc = "locate"
    /\ pc' = "spread"
    /\ distances' = Distances(mesh, value)
    /\ value' = LocateValue(mesh, value)
    /\ masked' = LocateMasked(mesh, value)
    /\ interfaceFlag' = InterfaceFlag(mesh, distances')
    /\ valueSeed' = value'
    /\ UNCHANGED << mesh, selfNarrowBandWidth, tmpValue, extensionVariable,
                    numericExtensionVariable, flag, narrowBandWidth, deleteIslands,
                    positiveInterfaceFlag, evaluatedFlag, trialIDs, id, err, areas,
                    value0, ext0, valueLoc, accepted, calls >>

\* "spread the extensionVariable to the whole interface", then "if flag:
\* self.value = self.tmpValue.copy()".  A masked entry of self.value makes the
\* conversion of self.value > 0 to a Numeric array raise.
SpreadInterface ==
    /\ pc = "spread"
    /\ IF masked # {}
       THEN /\ pc' = "error"
            /\ err' = "MAError"
            /\ UNCHANGED << value, numericExtensionVariable,
                            positiveInterfaceFlag, calls >>
       ELSE \E r \in { SpreadInterfaceLoop(mesh, value, interfaceFlag,
                                           numericExtensionVariable) } :
            /\ positiveInterfaceFlag' = PositiveInterfaceFlag(mesh, value, interfaceFlag)
            /\ numericExtensionVariable' = r.ext
            /\ calls' = r.calls
            /\ err' = r.err
            /\ pc' = IF r.err = "none" THEN "seed" ELSE "error"
            /\ value' = IF r.err = "none" /\ flag THEN tmpValue ELSE value
    /\ UNCHANGED << mesh, selfNarrowBandWidth, tmpValue, extensionVariable, flag,
                    narrowBandWidth, deleteIslands, distances, masked,
                    interfaceFlag, evaluatedFlag, trialIDs, id, areas,
                    value0, ext0, valueLoc, valueSeed, accepted >>

\* "evaluate the trialIDs": the trial cells and their first values
SeedTrial ==
    /\ pc = "seed"
    /\ \E r \in { SeedTrialLoop(mesh, value, interfaceFlag, numericExtensionVariable) } :
           /\ trialIDs' = InitialTrialIDs(mesh, interfaceFlag)
           /\ evaluatedFlag' = interfaceFlag
           /\ value' = r.value
           /\ numericExtensionVariable' = r.ext
           /\ calls' = r.calls
           /\ err' = r.err
           /\ pc' = IF r.err # "none" THEN "error"
                    ELSE IF trialIDs' = << >> THEN "exit" ELSE "loop"
    /\ UNCHANGED << mesh, selfNarrowBandWidth, tmpValue, extensionVariable, flag,
                    narrowBandWidth, deleteIslands, distances, masked,
                    interfaceFlag, positiveInterfaceFlag, id, areas,
                    value0, ext0, valueLoc, valueSeed, accepted >>

\* one iteration of "while len(trialIDs):".  evaluatedFlag is the array
\* interfaceFlag (line 330), so the assignment writes both.
Accept ==
    /\ pc = "loop"
    /\ \E r \in { AcceptStep(mesh, [ value |-> value, ext |-> numericExtensionVariable,
                                     evaluatedFlag |-> evaluatedFlag,
                                     trialIDs |-> trialIDs, id |-> id, err |-> "none",
                                     calls |-> << >>, stop |-> FALSE ],
                             narrowBandWidth) } :
           /\ id' = r.id
           /\ trialIDs' = r.trialIDs
           /\ evaluatedFlag' = r.evaluatedFlag
           /\ interfaceFlag' = r.evaluatedFlag
           /\ value' = r.value
           /\ numericExtensionVariable' = r.ext
           /\ calls' = r.calls
           /\ err' = r.err
           /\ accepted' = Append(accepted, r.id)
           /\ pc' = IF r.err # "none" THEN "error"
                    ELSE IF r.stop \/ r.trialIDs = << >> THEN "exit" ELSE "loop"
    /\ UNCHANGED << mesh, selfNarrowBandWidth, tmpValue, extensionVariable, flag,
                    narrowBandWidth, deleteIslands, distances, masked,
                    positiveInterfaceFlag, areas, value0, ext0, valueLoc, valueSeed >>

\* Return without "self.value = self.tmpValue": the field is left as the pass wrote it
ReturnWithoutRestore ==
    /\ pc = "exit"
    /\ pc' = "done"
    /\ extensionVariable' = IF flag THEN numericExtensionVariable ELSE extensionVariable
    /\ calls' = << >>
    /\ UNCHANGED << mesh, selfNarrowBandWidth, value, tmpValue, numericExtensionVariable,
                    flag, narrowBandWidth, deleteIslands, distances, masked,
                    interfaceFlag, positiveInterfaceFlag, evaluatedFlag, trialIDs,
                    id, err, areas, value0, ext0, valueLoc, valueSeed, accepted >>

\* the loop is left: _calcDistanceFunction returns, and extendVariable copies
\* the working array to the caller's and puts the saved field back
Return ==
    /\ pc = "exit"
    /\ pc' = "done"
    /\ extensionVariable' = IF flag THEN numericExtensionVariable ELSE extensionVariable
    /\ value' = IF flag THEN tmpValue ELSE value
    /\ calls' = << >>
    /\ UNCHANGED << mesh, selfNarrowBandWidth, tmpValue, numericExtensionVariable,
                    flag, narrowBandWidth, deleteIslands, distances, masked,
                    interfaceFlag, positiveInterfaceFlag, evaluatedFlag, trialIDs,
                    id, err, areas, value0, ext0, valueLoc, valueSeed, accepted >>

\* getCellInterfaceAreas() is called on the constructed object
GetCellInterfaceAreas ==
    /\ pc = "idle"
    /\ pc' = "queried"
    /\ areas' = CellInterfaceAreas(mesh, value)
    /\ UNCHANGED << mesh, selfNarrowBandWidth, value, tmpValue, extensionVariable,
                    numericExtensionVariable, flag, narrowBandWidth, deleteIslands,
                    distances, masked, interfaceFlag, positiveInterfaceFlag,
                    evaluatedFlag, trialIDs, id, err,
                    value0, ext0, valueLoc, valueSeed, accepted, calls >>

Next ==
    \/ \E nbw \in { None, 2 * Scale }, di \in BOOLEAN : CalcDistanceFunction(nbw, di)
    \/ \E p \in 1 .. 2, di \in BOOLEAN : ExtendVariable(ExtensionInput(mesh, p), di)
    \/ GetCellInterfaceAreas
    \/ DeleteIslands
    \/ LocateInterface
    \/ SpreadInterface
    \/ SeedTrial
    \/ Accept
    \/ Return

Spec == Init /\ [][Next]_vars

\* an iteration of "while len(trialIDs):" as the history shows it: the loop is
\* running and one cell is appended to the accepted cells.  Accept is the only
\* action that does so, and it can be taken whenever the loop is running.
LoopIteration ==
    /\ pc = "loop"
    /\ \E c \in Cells(mesh) : accepted' = Append(accepted, c)

\* the program runs on: an iteration of the loop that can be taken is taken
FairSpec == Spec /\ WF_accepted(LoopIteration)

-----------------------------------------------------------------------------
(* Properties *)

\* C1: when extendVariable returns, the distance field holds at every cell the
\* value it held before the call, whatever the mesh, the field, the extension
\* array and deleteIslands
C1_FieldRestored ==
    (pc = "done" /\ flag) => value = value0

\* an extension pass has returned after it overwrote the field and changed the
\* extension array
C1_Witness ==
    /\ pc = "done" /\ flag
    /\ valueSeed # value0
    /\ extensionVariable # ext0
    /\ accepted # << >>

\* the three-valued sign of a value
Sgn(v) == IF v > 0 THEN 1 ELSE IF v < 0 THEN 0 - 1 ELSE 0

\* calcDistanceFunction(deleteIslands = False) has returned
CalcReturned == pc = "done" /\ ~ flag /\ ~ deleteIslands

\* C2 as stated: after calcDistanceFunction with deleteIslands = False every
\* evaluated cell holds a value of the same sign as before the call
C2_SameSign ==
    CalcReturned =>
        \A c \in Cells(mesh) : evaluatedFlag[c] => Sgn(value[c]) = Sgn(value0[c])

\* C2: after calcDistanceFunction with deleteIslands = False every evaluated
\* cell that was positive holds a positive value and every evaluated cell that
\* was negative or zero holds a negative or zero value
C2_SignKept ==
    CalcReturned =>
        \A c \in Cells(mesh) : evaluatedFlag[c] => (value[c] > 0 <=> value0[c] > 0)

\* the call has returned with cells of either sign evaluated, some of them
\* accepted by the propagator, and with new values
C2_Witness ==
    /\ CalcReturned
    /\ accepted # << >>
    /\ \E c \in Cells(mesh) : evaluatedFlag[c] /\ value0[c] > 0 /\ value[c] # value0[c]
    /\ \E c \in Cells(mesh) : evaluatedFlag[c] /\ value0[c] < 0 /\ value[c] # value0[c]

\* the field the same call leaves with the default band of 1e+10
Unbounded == DistanceFunction(mesh, value0, Huge, deleteIslands)

\* C3 as stated: every cell whose value in the unbounded-band run of
\* calcDistanceFunction has magnitude at most W/2 has the same value after the
\* run with narrowBandWidth = W
C3_BandEqualsUnbounded ==
    (pc = "done" /\ ~ flag /\ narrowBandWidth # Huge /\ Unbounded.err = "none") =>
        \A c \in Cells(mesh) :
            2 * Abs(Unbounded.value[c]) <= narrowBandWidth
                => value[c] = Unbounded.value[c]

\* the field of a 1-D mesh is -1 on the left half and +1 on the right half
IsStep ==
    /\ mesh.dim = 1
    /\ mesh.nx % 2 = 0
    /\ \A c \in Cells(mesh) :
           value0[c] = IF 2 * c < mesh.nx THEN 0 - Scale ELSE Scale

\* C4: on a uniform 1-D mesh of n cells, n even, with -1 on the left half and +1
\* on the right half, calcDistanceFunction leaves cell i with (i - n/2 + 1/2) * dx;
\* n = 8 and dx = 0.5 give -1.75, -1.25, ..., 1.75
C4_StepField ==
    (pc = "done" /\ ~ flag /\ narrowBandWidth = Huge /\ IsStep) =>
        /\ \A i \in Cells(mesh) : 2 * value[i] = (2 * i - mesh.nx + 1) * mesh.dx
        /\ (mesh.nx = 8 /\ 2 * mesh.dx = Scale) =>
               value = [ i \in 0 .. 7 |-> (2 * i - 7) * (Scale \div 4) ]

\* the call has returned on the step field of eight cells with dx = 0.5
C4_Witness ==
    /\ pc = "done" /\ ~ flag /\ narrowBandWidth = Huge /\ IsStep
    /\ mesh.nx = 8 /\ 2 * mesh.dx = Scale
    /\ Len(accepted) = 6

\* cell c has a neighbour of opposite sign in the field the pass locates the
\* interface of
HasOppositeNeighbour(c) ==
    \E n \in Neighbours(mesh, c) : valueLoc[c] * valueLoc[n] < 0

\* C5: in every pass, no cell without an opposite-sign neighbour is marked
\* evaluated while a cell with an opposite-sign neighbour is not
C5_InterfaceFirst ==
    (\E c \in Cells(mesh) : evaluatedFlag[c] /\ ~ HasOppositeNeighbour(c)) =>
        \A c \in Cells(mesh) : HasOppositeNeighbour(c) => evaluatedFlag[c]

\* the propagator has accepted a cell without an opposite-sign neighbour on a
\* mesh that has cells with one
C5_Witness ==
    /\ pc = "loop"
    /\ accepted # << >>
    /\ ~ HasOppositeNeighbour(id) /\ evaluatedFlag[id]
    /\ \E c \in Cells(mesh) : HasOppositeNeighbour(c)

\* a positive cell all of whose existing neighbours are negative
IsolatedPositive(c) ==
    /\ value0[c] > 0
    /\ \A n \in Neighbours(mesh, c) : value0[n] < 0

C7_NoNeighbourRaises ==
    \A i \in 1 .. Len(calls) :
        calls[i].evaluated = {} =>
            /\ calls[i].result.err = "Error"
            /\ pc = "error" /\ err = "Error"
            /\ i = Len(calls)

\* the solver was called for a cell without an evaluated neighbour
C7_Witness ==
    /\ pc = "error"
    /\ \E i \in 1 .. Len(calls) : calls[i].evaluated = {}

\* the least of |value| * d / |value - neighbourValue| over the neighbours of
\* opposite sign
NearestCrossing(c) ==
    LET cross == { Div(Abs(valueLoc[c]) * mesh.dx, Abs(valueLoc[c] - valueLoc[n])) :
                   n \in { a \in Neighbours(mesh, c) : valueLoc[c] * valueLoc[a] < 0 } }
    IN  CHOOSE s \in cross : \A t \in cross : s <= t

\* the interface of the pass has been located
InterfaceLocated == pc \in { "spread", "seed", "loop", "exit", "done", "error" }

\* C8: on a 1-D mesh every cell with an opposite-sign neighbour is seeded with
\* sign(cell) times its nearest crossing distance, also when both neighbours
\* have opposite sign: 3 cells, dx = 1, values (-1, 1, -1) give (-0.5, 0.5, -0.5)
C8_LineSeed ==
    (InterfaceLocated /\ mesh.dim = 1) =>
        /\ \A c \in Cells(mesh) :
               HasOppositeNeighbour(c) =>
                   valueSeed[c] = Sgn(valueLoc[c]) * NearestCrossing(c)
        /\ (mesh.nx = 3 /\ mesh.dx = Scale
               /\ \A c \in Cells(mesh) : valueLoc[c] = (2 * (c % 2) - 1) * Scale) =>
               \A c \in Cells(mesh) : 2 * valueSeed[c] = (2 * (c % 2) - 1) * Scale

\* the interface is located on the 1-D field (-1, 1, -1), whose middle cell has
\* two opposite-sign neighbours
C8_Witness ==
    /\ pc = "spread" /\ mesh.dim = 1 /\ mesh.nx = 3 /\ mesh.dx = Scale
    /\ \A c \in Cells(mesh) : valueLoc[c] = (2 * (c % 2) - 1) * Scale
    /\ \A k \in Slots(mesh) : distances[1][k] # Masked

\* the neighbour in slot k of the cell a recorded call was made for
CallNeighbour(call, k) == CellToCellIDFilled(mesh, call.id, k)

\* w = area * |v - x| / d of that neighbour, multiplied by d0 * d1 / Scale, d
\* being the distance of this neighbour and dOther that of the other one
Weight(call, k, kOther, x) ==
    Div(CellArea(mesh, call.id, k) * Abs(call.value[CallNeighbour(call, k)] - x)
            * CellToCellDistance(mesh, call.id, kOther), Scale)

\* (e0 * w0 + e1 * w1) / (w0 + w1) for a recorded call, the weights taken at x
WeightedExtension(call, x) ==
    LET w0 == Weight(call, call.result.index0, call.result.index1, x)
        w1 == Weight(call, call.result.index1, call.result.index0, x)
    IN  Div(call.ext[CallNeighbour(call, call.result.index0)] * w0
                + call.ext[CallNeighbour(call, call.result.index1)] * w1, w0 + w1)

\* the sum w0 + w1 of the weights taken at x
WeightSum(call, x) ==
    Weight(call, call.result.index0, call.result.index1, x)
        + Weight(call, call.result.index1, call.result.index0, x)

\* the one-neighbour case of C9: the neighbour's extension value is returned
OneNeighbourExtension(call) ==
    (call.result.err = "none" /\ call.result.N = 1) =>
        call.result.ext = call.ext[CallNeighbour(call, call.result.index0)]

\* the 2 x 2 doctest of extendVariable: on the distance function of (-1, 1, 1, 1),
\* dx = dy = 1, extending (-1, .5, 2, -1) yields (1.25, .5, 2, 1.25)
ExtensionDoctest ==
    (/\ pc = "done" /\ flag
     /\ mesh = Grid2D(2, 2, Scale, Scale)
     /\ value0 = DistanceFunction(mesh, [ c \in Cells(mesh) |->
                                            IF c = 0 THEN 0 - Scale ELSE Scale ],
                                  Huge, FALSE).value
     /\ ext0 = ExtensionInput(mesh, 1)) =>
        extensionVariable = [ c \in 0 .. 3 |->
                                IF c = 1 THEN Scale \div 2
                                ELSE IF c = 2 THEN 2 * Scale ELSE 5 * (Scale \div 4) ]

\* C9 as stated: a two-neighbour call returns (e0 * w0 + e1 * w1) / (w0 + w1) with
\* w_i = area_i * |v_i - dis| / d_i, dis being the distance it returns; a
\* one-neighbour call returns e0; and the 2 x 2 doctest
C9_BlendAtDis ==
    /\ \A i \in 1 .. Len(calls) :
           /\ OneNeighbourExtension(calls[i])
           /\ (calls[i].result.err = "none" /\ calls[i].result.N >= 2
                   /\ WeightSum(calls[i], calls[i].result.dis) # 0) =>
                  calls[i].result.ext = WeightedExtension(calls[i], calls[i].result.dis)
    /\ ExtensionDoctest

\* dis clamped to the side of the cell: max(dis, 0) where the cell's value is
\* positive, min(dis, 0) elsewhere
Clamped(call) ==
    IF call.value[call.id] > 0 THEN Max(call.result.dis, 0)
    ELSE Min(call.result.dis, 0)

\* C9: a two-neighbour call returns (e0 * w0 + e1 * w1) / (w0 + w1) with
\* w_i = area_i * |v_i - phi| / d_i, phi being the distance estimate clamped to
\* the cell's side of zero, and raises where w0 + w1 = 0; a one-neighbour call
\* returns e0; and the 2 x 2 doctest
C9_BlendAtPhi ==
    /\ \A i \in 1 .. Len(calls) :
           /\ OneNeighbourExtension(calls[i])
           /\ calls[i].result.N >= 2 =>
                  IF WeightSum(calls[i], Clamped(calls[i])) = 0
                  THEN calls[i].result.err = "ZeroDivisionError"
                  ELSE /\ calls[i].result.err = "none"
                       /\ calls[i].result.ext
                              = WeightedExtension(calls[i], Clamped(calls[i]))
    /\ ExtensionDoctest

\* a two-neighbour call returned a distance on the other side of zero from its
\* cell and blended two different extension values; the doctest pass returned
C9_Witness ==
    \/ \E i \in 1 .. Len(calls) :
           /\ calls[i].result.err = "none" /\ calls[i].result.N >= 2
           /\ Clamped(calls[i]) # calls[i].result.dis
           /\ calls[i].ext[CallNeighbour(calls[i], calls[i].result.index0)]
                  # calls[i].ext[CallNeighbour(calls[i], calls[i].result.index1)]
    \/ /\ pc = "done" /\ flag /\ mesh = Grid2D(2, 2, Scale, Scale)
       /\ ext0 = ExtensionInput(mesh, 1)
       /\ extensionVariable[0] = 5 * (Scale \div 4)

\* a face of cell c separates two cells whose values have strictly opposite sign
HasSignChange(c) ==
    \E n \in Neighbours(mesh, c) : value[c] * value[n] < 0

\* C10: getCellInterfaceAreas returns 0 for every cell whose value is negative
\* and for every cell none of whose faces separates two cells of strictly
\* opposite sign; 1-D, dx = 1, values (-1.5, -0.5, 0.5, 1.5) give (0, 0, 1, 0)
C10_AreasZero ==
    pc = "queried" =>
        /\ \A c \in Cells(mesh) :
               (value[c] < 0 \/ ~ HasSignChange(c)) => areas[c] = 0
        /\ (mesh = Grid1D(4, Scale)
               /\ value = [ c \in 0 .. 3 |-> (2 * c - 3) * (Scale \div 2) ]) =>
               areas = [ c \in 0 .. 3 |-> IF c = 2 THEN Scale ELSE 0 ]

\* the areas were returned for a 2-D field with a negative cell next to a sign
\* change and a positive cell with a non-zero area
C10_Witness ==
    /\ pc = "queried" /\ mesh.dim = 2
    /\ \E c \in Cells(mesh) : value[c] < 0 /\ HasSignChange(c)
    /\ \E c \in Cells(mesh) : value[c] > 0 /\ areas[c] > 0
    /\ \E c \in Cells(mesh) : value[c] > 0 /\ ~ HasSignChange(c)

\* the cells of a list
InList(trial) == { trial[i] : i \in 1 .. Len(trial) }

\* one step keeps every cell on the path unvisited -> trial -> evaluated
ForwardStep ==
    /\ \A c \in Cells(mesh) : evaluatedFlag[c] => evaluatedFlag'[c]
    /\ \A i, j \in 1 .. Len(accepted') : accepted'[i] = accepted'[j] => i = j
    /\ \A c \in InList(trialIDs') : ~ evaluatedFlag'[c]
    /\ \A c \in InList(trialIDs) : c \in InList(trialIDs') \/ evaluatedFlag'[c]
    /\ pc = "loop" =>
           \A c \in Cells(mesh) :
               (evaluatedFlag'[c] /\ ~ evaluatedFlag[c]) => c \in InList(trialIDs)

\* C11: during a pass an evaluated flag once set is never cleared, each cell is
\* accepted at most once, an evaluated cell is never in the trial set, and a
\* trial cell stays in the trial set until it is evaluated
C11_ForwardOnly == [][ForwardStep]_vars

\* the loop has accepted two cells and has recomputed a cell that was in the
\* trial set already, with trial cells left
C11_Witness ==
    /\ pc = "loop"
    /\ Len(accepted) >= 2
    /\ \E i \in 1 .. Len(calls), j \in 1 .. Len(trialIDs) :
           calls[i].id = trialIDs[j] /\ j <= Len(trialIDs) - Len(calls)

\* C12 as stated: within one pass the magnitudes of the cells accepted by the
\* propagator form a non-decreasing sequence
C12_AcceptedAscending ==
    pc \in { "loop", "exit" } =>
        \A i, j \in 1 .. Len(accepted) :
            i < j => Abs(value[accepted[i]]) <= Abs(value[accepted[j]])

\* a step of the loop recomputes trial cells only to values of no larger magnitude
NoRegress ==
    pc = "loop" =>
        \A i \in 1 .. Len(calls') :
            (calls'[i].id \in InList(trialIDs) /\ calls'[i].result.err = "none") =>
                Abs(calls'[i].result.dis) <= Abs(value[calls'[i].id])

\* C13 as stated: each time the value of a cell already in the trial set is
\* recomputed because one more neighbour was accepted, the new trial magnitude
\* is no larger than the one it replaces
C13_TrialImproves == [][NoRegress]_vars

\* C14 as stated: every call of the trial value solver made by a pass is made
\* for a cell with at least one evaluated neighbour, and the error of the
\* zero-neighbour case is never reached, zero values in the field included
C14_SolverHasNeighbour ==
    /\ \A i \in 1 .. Len(calls) : calls[i].evaluated # {}
    /\ err # "Error"

\* the normals of the slots k0 and k1 of cell c are degenerate: |cross| < 0.1,
\* always so in 1-D
Degenerate(c, k0, k1) ==
    \/ mesh.dim = 1
    \/ 10 * Abs(CellNormal(mesh, c, k0)[1] * CellNormal(mesh, c, k1)[2]
                   - CellNormal(mesh, c, k0)[2] * CellNormal(mesh, c, k1)[1]) < 1

\* the slots of the call's cell in ascending order of the neighbours' magnitude,
\* the neighbours that are not evaluated last
NearestSlots(call) ==
    ArgSort(Slots(mesh),
            Array([ k \in Slots(mesh) |->
                      IF CellToCellID(mesh, call.id, k) \in call.evaluated
                      THEN Abs(call.value[CellToCellID(mesh, call.id, k)])
                      ELSE Huge ]))

\* the one-neighbour estimate v0 + sign * d0 of a call
OneNeighbourEstimate(call) ==
    call.value[CellToCellIDFilled(mesh, call.id, NearestSlots(call)[1])]
        + Sign(call.value[call.id])
              * CellToCellDistance(mesh, call.id, NearestSlots(call)[1])

\* the call evaluated the quadratic on a pair of neighbours with degenerate normals
QuadraticOnDegenerate(call) ==
    /\ call.result.N = 2
    /\ Degenerate(call.id, call.result.index0, call.result.index1)

\* C15 as stated: with two or more evaluated neighbours the solver never
\* evaluates the quadratic on a pair of neighbours with degenerate normals, and
\* where the two nearest neighbours are degenerate it returns v0 + sign * d0
C15_DegenerateFallsBack ==
    \A i \in 1 .. Len(calls) :
        (Cardinality(calls[i].evaluated) >= 2 /\ calls[i].result.err # "Error") =>
            /\ ~ QuadraticOnDegenerate(calls[i])
            /\ Degenerate(calls[i].id, NearestSlots(calls[i])[1],
                          NearestSlots(calls[i])[2])
                   => calls[i].result.dis = OneNeighbourEstimate(calls[i])

\* C16 as stated: the only error a pass can end with is that of the solver's
\* zero-neighbour case; no division by zero is reached in the interface
\* interpolation, in the two-neighbour solve or in the extension blend
C16_OnlyZeroNeighbourError == err \in { "none", "Error" }

\* the magnitude of the i-th accepted cell is above half the band width
AboveBand(i) == 2 * Abs(value[accepted[i]]) > narrowBandWidth

\* C17: the loop goes on only while the trial set is not empty and no accepted
\* cell has |value| > narrowBandWidth / 2; it is left, without an error, only
\* with the trial set empty or the cell accepted last above narrowBandWidth / 2;
\* so only the cell accepted last can be above narrowBandWidth / 2
C17_LoopStops ==
    /\ pc = "loop" =>
           /\ trialIDs # << >>
           /\ \A i \in 1 .. Len(accepted) : ~ AboveBand(i)
    /\ (pc = "exit" /\ accepted # << >>) =>
           /\ id = accepted[Len(accepted)]
           /\ trialIDs = << >> \/ AboveBand(Len(accepted))
           /\ \A i \in 1 .. (Len(accepted) - 1) : ~ AboveBand(i)

\* the loop was left with trial cells remaining, after it accepted cells within
\* half the band width and then one above it
C17_Witness ==
    /\ pc = "exit"
    /\ trialIDs # << >>
    /\ Len(accepted) >= 2
    /\ AboveBand(Len(accepted))

\* a step of the pass from the seeding of the trial cells on leaves the distance
\* and the extension value of every cell that is evaluated after it as they were
EvaluatedKept ==
    pc \in { "seed", "loop" } =>
        \A c \in Cells(mesh) :
            evaluatedFlag'[c] =>
                /\ value'[c] = value[c]
                /\ numericExtensionVariable'[c] = numericExtensionVariable[c]

\* C18: when a cell is accepted only its neighbours that are not evaluated are
\* recomputed: the distance and the extension value of a cell do not change
\* once its evaluated flag is set
C18_EvaluatedUntouched == [][EvaluatedKept]_vars

\* a cell was accepted next to an evaluated cell that was not recomputed, and
\* others of its neighbours were
C18_Witness ==
    /\ pc \in { "loop", "exit" }
    /\ accepted # << >>
    /\ calls # << >>
    /\ \E n \in Neighbours(mesh, id) :
           evaluatedFlag[n] /\ \A i \in 1 .. Len(calls) : calls[i].id # n

\* cell c has a neighbour with a different value whose product with the cell's
\* value is not positive: of opposite sign, or exactly one of the two is zero
HasCrossing(c) ==
    \E n \in Neighbours(mesh, c) :
        valueLoc[c] * valueLoc[n] <= 0 /\ valueLoc[c] # valueLoc[n]

\* C19 as stated: after the interface locator a cell is flagged if and only if
\* it has a neighbour of opposite sign, and every cell that is not flagged holds
\* its original value
C19_FlagIffOpposite ==
    pc = "spread" =>
        \A c \in Cells(mesh) :
            /\ interfaceFlag[c] <=> HasOppositeNeighbour(c)
            /\ ~ interfaceFlag[c] => value[c] = valueLoc[c]

\* C19: after the interface locator a cell is flagged if and only if it has a
\* neighbour of opposite sign or a neighbour such that exactly one of the two
\* values is zero, and every cell that is not flagged holds its original value
C19_FlagIffCrossing ==
    pc = "spread" =>
        \A c \in Cells(mesh) :
            /\ interfaceFlag[c] <=> HasCrossing(c)
            /\ ~ interfaceFlag[c] => value[c] = valueLoc[c]

\* the interface was located in a field with a non-zero cell flagged only
\* because of a zero neighbour, a cell that is not flagged, and values that changed
C19_Witness ==
    /\ pc = "spread"
    /\ \E c \in Cells(mesh) :
           interfaceFlag[c] /\ ~ HasOppositeNeighbour(c) /\ valueLoc[c] # 0
    /\ \E c \in Cells(mesh) : ~ interfaceFlag[c]
    /\ value # valueLoc

\* the cells the interface locator flagged
InterfaceCells == { c \in Cells(mesh) : \E k \in Slots(mesh) : distances[c][k] # Masked }

\* an iteration of the loop accepts exactly one cell, a trial cell that was not
\* evaluated, and takes it out of the trial list, where no evaluated cell is left
AcceptsOne ==
    pc = "loop" =>
        /\ Len(accepted') = Len(accepted) + 1
        /\ id' = accepted'[Len(accepted')]
        /\ id' \in InList(trialIDs)
        /\ ~ evaluatedFlag[id'] /\ evaluatedFlag'[id']
        /\ id' \notin InList(trialIDs')
        /\ \A c \in InList(trialIDs') : ~ evaluatedFlag'[c]

\* no more acceptances than there are cells that are not interface cells
AcceptancesBounded ==
    Cardinality(Cells(mesh)) - Cardinality(InterfaceCells) >= Len(accepted)

\* C20: the propagation loop terminates: every iteration accepts exactly one
\* trial cell, which is never in the trial list again, a pass performs at most
\* (number of cells - number of interface cells) acceptances, and a loop that
\* was entered is left
C20_LoopTerminates ==
    /\ [][AcceptsOne]_vars
    /\ []AcceptancesBounded
    /\ (pc = "loop") ~> (pc \in { "exit", "error" })

\* a pass with the unbounded band has left the loop after it accepted every
\* cell that is not an interface cell, three of them or more
C20_Witness ==
    /\ pc = "exit"
    /\ narrowBandWidth = Huge
    /\ Len(accepted) >= 3
    /\ Len(accepted) = Cardinality(Cells(mesh)) - Cardinality(InterfaceCells)

\* the cells that are not evaluated and have an evaluated neighbour
Frontier ==
    { c \in Cells(mesh) :
        ~ evaluatedFlag[c] /\ \E n \in Neighbours(mesh, c) : evaluatedFlag[n] }

\* C21: at the start of every iteration of the propagation loop the trial list
\* has no duplicates and holds exactly the cells that are not evaluated and have
\* an evaluated neighbour
C21_TrialIsFrontier ==
    pc = "loop" =>
        /\ \A i, j \in 1 .. Len(trialIDs) : trialIDs[i] = trialIDs[j] => i = j
        /\ InList(trialIDs) = Frontier

\* an iteration starts after two acceptances with two trial cells or more, while
\* some cell that is not evaluated has no evaluated neighbour
C21_Witness ==
    /\ pc = "loop"
    /\ Len(accepted) >= 2
    /\ Len(trialIDs) >= 2
    /\ \E c \in Cells(mesh) : ~ evaluatedFlag[c] /\ c \notin InList(trialIDs)

\* the cells whose extension value the pass wrote: the negative interface cells,
\* the cells the loop accepted and the trial cells it left
WrittenCells ==
    { c \in Cells(mesh) :
        \/ c \in InterfaceCells /\ valueSeed[c] < 0
        \/ c \in InList(accepted)
        \/ c \in InList(trialIDs) }

\* the extension values supplied at the cells of the set cs
SuppliedAt(cs) == { ext0[c] : c \in cs }

\* every written extension value lies between two of the values in src
WrittenWithin(src) ==
    \A c \in WrittenCells :
        /\ \E lo \in src : lo <= extensionVariable[c]
        /\ \E hi \in src : extensionVariable[c] <= hi

\* C22 as stated: after extendVariable every extension value written by the pass
\* lies between the minimum and the maximum of the extension values supplied at
\* the positive-valued interface cells
C22_WithinPositiveSources ==
    (pc = "done" /\ flag) =>
        WrittenWithin(SuppliedAt({ c \in InterfaceCells : valueSeed[c] > 0 }))

\* C22: after extendVariable every extension value written by the pass lies
\* between the minimum and the maximum of the extension values supplied at the
\* interface cells whose value is positive or exactly zero
C22_WithinNonNegativeSources ==
    (pc = "done" /\ flag) =>
        WrittenWithin(SuppliedAt({ c \in InterfaceCells : valueSeed[c] >= 0 }))

\* an extension pass returned on a field with an interface cell at exactly zero:
\* it accepted a cell, wrote a value that no cell was supplied with, and a cell
\* that is no source was supplied with a value above every source's or below
\* every source's
C22_Witness ==
    /\ pc = "done" /\ flag
    /\ accepted # << >>
    /\ \E c \in InterfaceCells : valueSeed[c] = 0
    /\ \E c \in WrittenCells : extensionVariable[c] \notin SuppliedAt(Cells(mesh))
    /\ \E c \in Cells(mesh) :
           LET src == SuppliedAt({ n \in InterfaceCells : valueSeed[n] >= 0 })
           IN  (\A e \in src : ext0[c] > e) \/ (\A e \in src : ext0[c] < e)

====
